---- MODULE Spec2Model ----
(***************************************************************************)
(* Model of the mod loop of main() in modpack-downloader.py: the per-entry *)
(* logic (record creation, fast skip, resolution, transfer), the retry     *)
(* prompt, the persistence of progress.json and the process exit, over     *)
(* successive invocations of the script on the same pack directory.        *)
(*                                                                         *)
(* Python values: None and "" of the fields name and url are both falsy    *)
(* and the code only tests their truth, so name None is "" and url None is *)
(* the empty sequence <<>>.  A url is the sequence of its '/'-separated    *)
(* segments.  A file is represented by the md5 digest of its bytes.        *)
(***************************************************************************)
EXTENDS Integers, Sequences, FiniteSets, TLC

\* ------------------------------------------------------------------ bounds
MaxRuns == 2        \* invocations of the script on the same directory
MaxPasses == 2      \* passes of the `while retry` loop within one invocation

\* ------------------------------------------------------------------ inputs
\* manifest["files"]: the entries of the pack, in manifest order
manifest_files ==
    << [projectID |-> 100, fileID |-> 200],
       [projectID |-> 101, fileID |-> 201] >>

Mods == 1..Len(manifest_files)

\* Digests of file contents, and values an ETag header may carry
Digests == {"d1", "d2"}

\* Values of the ETag header with its quotes stripped: a digest, or nothing
ETagValues == Digests \cup {""}

JarNames == <<"a.jar", "b.jar", "c.jar", "d.jar">>

\* The text the catalog answers for entry i when it answers with a URL
DownloadUrl(i) == <<"https:", "", "edge.forgecdn.net", "files", JarNames[i]>>

\* url.split('/')[-1]
UrlFilename(url) == url[Len(url)]

Filenames == {UrlFilename(DownloadUrl(i)) : i \in Mods}

NoFile == "<absent>"

\* mod_info_defaults
mod_info_defaults == [name |-> "", url |-> <<>>, md5 |-> "", downloaded |-> FALSE]

\* ------------------------------------------------------------------ state
VARIABLES
    pc,                \* position in main(): "entry", "resolve", "transfer",
                       \* "break", "finally", "persist", "after", "exited";
                       \* "idle" between two invocations
    args_force,        \* args.force
    progress,          \* the in-memory ledger: entry index -> record
    progress_file,     \* the parsed content of progress.json
    file_state,        \* progress.json is "empty", "complete" or "truncated"
    disk,              \* mod_download_path: filename -> digest or NoFile
    idx,               \* position of the for loop in manifest["files"]
    file_url,          \* file_url of the current iteration
    interrupted,
    progress_modified,
    mod_failures,      \* [kind: "list" | "bool" | "none", items: Seq(Mods)]
    retry,
    input_response,    \* "" (None), "y" or "n"
    exc,               \* exception propagating out of the try block
    exit_status,       \* process exit status, meaningful when pc = "exited"
    run,               \* number of the current invocation
    pass,              \* number of the current pass of this invocation
    \* history of the current pass
    outcome,           \* entry index -> what happened to the entry
    res_req,           \* entries for which a resolution request was issued
    xfer_req,          \* entries for which a transfer request was issued
    pass_start,        \* the ledger as it was when the pass started
    wrote,             \* progress.json was written in this pass
    persist_done,      \* the persistence step of this pass has run
    overridden,        \* override_files ran in this pass
    \* history across invocations, kept until the first pass of the next
    \* invocation is over
    prev_clean,        \* the previous invocation had no --force, exited 0 and
                       \* skipped or acquired every entry
    tampered           \* files deleted or altered since the previous exit

vars == << pc, args_force, progress, progress_file, file_state, disk, idx, file_url,
           interrupted, progress_modified, mod_failures, retry, input_response,
           exc, exit_status, run, pass, outcome, res_req, xfer_req, pass_start,
           wrote, persist_done, overridden, prev_clean, tampered >>

\* ------------------------------------------------------------------ helpers
EmptyList == [kind |-> "list", items |-> <<>>]
BoolTrue  == [kind |-> "bool", items |-> <<>>]
NoneValue == [kind |-> "none", items |-> <<>>]

\* Truthy with True taken as falsy: only a non-empty list counts
Truthy_ListOnly(mf) == mf.kind = "list" /\ Len(mf.items) > 0

\* Python truth value of mod_failures: a non-empty list or True
Truthy(mf) == \/ mf.kind = "bool"
              \/ mf.kind = "list" /\ Len(mf.items) > 0

\* mod_failures.append exists only on a list
HasAppend(mf) == mf.kind = "list"

validate_file(d, name, md5) ==
    /\ name \in DOMAIN d
    /\ d[name] # NoFile
    /\ md5 # ""
    /\ d[name] = md5

\* AlreadySatisfied with an empty md5 taken as no md5 (`not md5`)
AlreadySatisfied_EmptyMd5(force, d, filename, md5) ==
    /\ ~force
    /\ d[filename] # NoFile
    /\ (md5 = "" \/ validate_file(d, filename, md5))

\* AlreadySatisfied without the test of `force`
AlreadySatisfied_IgnoresForce(force, d, filename, md5) ==
    /\ d[filename] # NoFile
    /\ validate_file(d, filename, md5)

\* download_file, line 69: the file is taken as already downloaded
AlreadySatisfied(force, d, filename, md5) ==
    /\ ~force
    /\ d[filename] # NoFile
    /\ validate_file(d, filename, md5)

\* main, line 297: the record is eligible for the fast-skip validation
FastSkipEligible(force_download, rec) ==
    /\ ~force_download
    /\ rec.downloaded
    /\ rec.name # ""
    /\ rec.md5 # ""

\* main, line 306: the entry is designated for download
NeedsDownload(force_download, rec) ==
    \/ force_download
    \/ rec.name = ""
    \/ ~rec.downloaded
    \/ rec.url = <<>>
    \/ rec.md5 = ""

Pending == [i \in Mods |-> "pending"]

\* ------------------------------------------------------------------ Init
Init ==
    /\ pc = "entry"
    /\ args_force \in BOOLEAN
    /\ progress = <<>>
    /\ progress_file = <<>>
    /\ file_state = "empty"
    /\ disk = [f \in Filenames |-> NoFile]
    /\ idx = 1
    /\ file_url = <<>>
    /\ interrupted = FALSE
    /\ progress_modified = FALSE
    /\ mod_failures = EmptyList
    /\ retry = FALSE
    /\ input_response = ""
    /\ exc = "none"
    /\ exit_status = 0
    /\ run = 1
    /\ pass = 1
    /\ outcome = Pending
    /\ res_req = {}
    /\ xfer_req = {}
    /\ pass_start = <<>>
    /\ wrote = FALSE
    /\ persist_done = FALSE
    /\ overridden = FALSE
    /\ prev_clean = FALSE
    /\ tampered = {}

\* ------------------------------------------------------------------ the for loop
\* `continue`, or the end of the loop body: on to the next manifest entry
Continue(o) ==
    /\ outcome' = [outcome EXCEPT ![idx] = o]
    /\ idx' = idx + 1
    /\ pc' = "entry"

\* lines 268-306 and 347-348: record creation, defaults, fast skip, and the
\* decision to download
BeginEntry ==
    /\ pc = "entry"
    /\ idx \in Mods
    /\ LET created  == idx \notin DOMAIN progress
           rec      == IF created THEN mod_info_defaults ELSE progress[idx]
           force0   == args_force \/ created
           eligible == FastSkipEligible(force0, rec)
           valid    == eligible /\ validate_file(disk, rec.name, rec.md5)
           force1   == force0 \/ (eligible /\ ~valid)
       IN  /\ progress' = [i \in DOMAIN progress \cup {idx} |->
                              IF i = idx THEN rec ELSE progress[i]]
           /\ progress_modified' = (progress_modified \/ created)
           /\ IF valid
                THEN Continue("skipped") /\ UNCHANGED file_url
                ELSE IF NeedsDownload(force1, rec)
                       THEN /\ file_url' = rec.url
                            /\ pc' = IF rec.url = <<>> THEN "resolve" ELSE "transfer"
                            /\ UNCHANGED << idx, outcome >>
                       ELSE Continue("already") /\ UNCHANGED file_url
    /\ UNCHANGED << args_force, progress_file, file_state, disk, interrupted, mod_failures,
                    retry, input_response, exc, exit_status, run, pass, res_req,
                    xfer_req, pass_start, wrote, persist_done, overridden,
                    prev_clean, tampered >>

\* lines 315-318: KeyboardInterrupt during the resolution request
ResolveInterrupt ==
    /\ pc = "resolve"
    /\ res_req' = res_req \cup {idx}
    /\ interrupted' = TRUE
    /\ outcome' = [outcome EXCEPT ![idx] = "res_cancelled"]
    /\ pc' = "break"
    /\ UNCHANGED << args_force, progress, progress_file, file_state, disk, idx, file_url,
                    progress_modified, mod_failures, retry, input_response, exc,
                    exit_status, run, pass, xfer_req, pass_start, wrote,
                    persist_done, overridden, prev_clean, tampered >>

\* lines 319-322: any other exception of the resolution request
ResolveFail ==
    /\ pc = "resolve"
    /\ res_req' = res_req \cup {idx}
    /\ IF HasAppend(mod_failures)
         THEN /\ mod_failures' = [mod_failures EXCEPT !.items = Append(@, idx)]
              /\ Continue("res_failed")
              /\ UNCHANGED exc
         ELSE \* AttributeError raised in the handler leaves the try block
              /\ exc' = "AttributeError"
              /\ outcome' = [outcome EXCEPT ![idx] = "res_failed"]
              /\ pc' = "finally"
              /\ UNCHANGED << mod_failures, idx >>
    /\ UNCHANGED << args_force, progress, progress_file, file_state, disk, file_url,
                    interrupted, progress_modified, retry, input_response,
                    exit_status, run, pass, xfer_req, pass_start, wrote,
                    persist_done, overridden, prev_clean, tampered >>

\* UrlChanged answering no: the resolved url is never stored
UrlChanged_Never(rec_url, new_url) == FALSE

\* line 326: the record has no url or another one
UrlChanged(rec_url, new_url) == rec_url = <<>> \/ rec_url # new_url

\* lines 315, 325-328: the catalog answers with a text, empty or a URL
ResolveText(text) ==
    /\ pc = "resolve"
    /\ res_req' = res_req \cup {idx}
    /\ IF text = <<>>
         THEN /\ Continue("empty_url")
              /\ UNCHANGED << progress, progress_modified, file_url >>
         ELSE /\ file_url' = text
              /\ IF UrlChanged(progress[idx].url, text)
                   THEN /\ progress' = [progress EXCEPT ![idx].url = text]
                        /\ progress_modified' = TRUE
                   ELSE UNCHANGED << progress, progress_modified >>
              /\ pc' = "transfer"
              /\ UNCHANGED << idx, outcome >>
    /\ UNCHANGED << args_force, progress_file, file_state, disk, interrupted, mod_failures,
                    retry, input_response, exc, exit_status, run, pass, xfer_req,
                    pass_start, wrote, persist_done, overridden, prev_clean,
                    tampered >>

\* download_file lines 69-71, main lines 341-346: the file on disk is taken
\* as already downloaded, no request is made
TransferSatisfied ==
    /\ pc = "transfer"
    /\ AlreadySatisfied(args_force, disk, UrlFilename(file_url), progress[idx].md5)
    /\ progress' = [progress EXCEPT ![idx].name = UrlFilename(file_url),
                                    ![idx].downloaded = TRUE]
    /\ progress_modified' = TRUE
    /\ Continue("skipped_dl")
    /\ UNCHANGED << args_force, progress_file, file_state, disk, file_url, interrupted,
                    mod_failures, retry, input_response, exc, exit_status, run,
                    pass, res_req, xfer_req, pass_start, wrote, persist_done,
                    overridden, prev_clean, tampered >>

\* download_file lines 76-78, main lines 337-339: KeyboardInterrupt during
\* the transfer
TransferInterrupt ==
    /\ pc = "transfer"
    /\ ~AlreadySatisfied(args_force, disk, UrlFilename(file_url), progress[idx].md5)
    /\ xfer_req' = xfer_req \cup {idx}
    /\ interrupted' = TRUE
    /\ outcome' = [outcome EXCEPT ![idx] = "xfer_cancelled"]
    /\ pc' = "break"
    /\ UNCHANGED << args_force, progress, progress_file, file_state, disk, idx, file_url,
                    progress_modified, mod_failures, retry, input_response, exc,
                    exit_status, run, pass, res_req, pass_start, wrote,
                    persist_done, overridden, prev_clean, tampered >>

\* download_file lines 79-84, main lines 344-346: the request raised or the
\* response is not ok
TransferFail ==
    /\ pc = "transfer"
    /\ ~AlreadySatisfied(args_force, disk, UrlFilename(file_url), progress[idx].md5)
    /\ xfer_req' = xfer_req \cup {idx}
    /\ mod_failures' = BoolTrue
    /\ progress' = [progress EXCEPT ![idx].downloaded = FALSE]
    /\ Continue("xfer_failed")
    /\ UNCHANGED << args_force, progress_file, file_state, disk, file_url, interrupted,
                    progress_modified, retry, input_response, exc, exit_status,
                    run, pass, res_req, pass_start, wrote, persist_done,
                    overridden, prev_clean, tampered >>

\* download_file lines 86-99, main lines 332-346: a response with bytes of
\* digest `hash` and an ETag header carrying `etag`
TransferDone(hash, etag) ==
    /\ pc = "transfer"
    /\ ~AlreadySatisfied(args_force, disk, UrlFilename(file_url), progress[idx].md5)
    /\ xfer_req' = xfer_req \cup {idx}
    /\ disk' = [disk EXCEPT ![UrlFilename(file_url)] = hash]
    /\ progress' = [progress EXCEPT ![idx].md5 = etag,
                                    ![idx].name = UrlFilename(file_url),
                                    ![idx].downloaded = TRUE]
    /\ progress_modified' = TRUE
    /\ Continue("acquired")
    /\ UNCHANGED << args_force, progress_file, file_state, file_url, interrupted,
                    mod_failures, retry, input_response, exc, exit_status, run,
                    pass, res_req, pass_start, wrote, persist_done, overridden,
                    prev_clean, tampered >>

\* download_file line 88 or main line 333: a response without an ETag header
\* raises KeyError, before the file is written when the record has no md5 and
\* after it otherwise
TransferNoETag(hash) ==
    /\ pc = "transfer"
    /\ ~AlreadySatisfied(args_force, disk, UrlFilename(file_url), progress[idx].md5)
    /\ xfer_req' = xfer_req \cup {idx}
    /\ disk' = IF progress[idx].md5 = ""
                 THEN disk
                 ELSE [disk EXCEPT ![UrlFilename(file_url)] = hash]
    /\ exc' = "KeyError"
    /\ outcome' = [outcome EXCEPT ![idx] = "xfer_crashed"]
    /\ pc' = "finally"
    /\ UNCHANGED << args_force, progress, progress_file, file_state, idx, file_url,
                    interrupted, progress_modified, mod_failures, retry,
                    input_response, exit_status, run, pass, res_req, pass_start,
                    wrote, persist_done, overridden, prev_clean, tampered >>

\* RunsOverride without the test of `interrupted`
RunsOverride_Always(intr) == TRUE

\* line 351: override_files is called
RunsOverride(intr) == ~intr

\* lines 350-359: the loop is exhausted or left by `break`; the downloaded
\* mods and the pack's overrides are copied unless interrupted
EndLoop ==
    /\ \/ pc = "entry" /\ idx \notin Mods
       \/ pc = "break"
    /\ overridden' = RunsOverride(interrupted)
    /\ pc' = "finally"
    /\ UNCHANGED << args_force, progress, progress_file, file_state, disk, idx, file_url,
                    interrupted, progress_modified, mod_failures, retry,
                    input_response, exc, exit_status, run, pass, outcome,
                    res_req, xfer_req, pass_start, wrote, persist_done,
                    prev_clean, tampered >>

\* ------------------------------------------------------------------ finally
\* NeedsPrompt without the test of `interrupted`
NeedsPrompt_IgnoresInterrupt(intr, mf) == Truthy(mf)

\* lines 366-368: the operator is asked
NeedsPrompt(intr, mf) == ~intr /\ Truthy(mf)

\* lines 364-368: no prompt
FinallyNoPrompt ==
    /\ pc = "finally"
    /\ ~NeedsPrompt(interrupted, mod_failures)
    /\ input_response' = ""
    /\ pc' = "persist"
    /\ UNCHANGED << args_force, progress, progress_file, file_state, disk, idx, file_url,
                    interrupted, progress_modified, mod_failures, retry, exc,
                    exit_status, run, pass, outcome, res_req, xfer_req,
                    pass_start, wrote, persist_done, overridden, prev_clean,
                    tampered >>

\* lines 368-376: the operator answers the prompt
Prompt(answer) ==
    /\ pc = "finally"
    /\ NeedsPrompt(interrupted, mod_failures)
    /\ answer = "y" => pass < MaxPasses
    /\ input_response' = answer
    /\ IF answer = "y"
         THEN mod_failures' = NoneValue /\ retry' = TRUE
         ELSE UNCHANGED << mod_failures, retry >>
    /\ pc' = "persist"
    /\ UNCHANGED << args_force, progress, progress_file, file_state, disk, idx, file_url,
                    interrupted, progress_modified, exc, exit_status, run, pass,
                    outcome, res_req, xfer_req, pass_start, wrote, persist_done,
                    overridden, prev_clean, tampered >>

\* lines 378-387: progress.json is written when progress_modified
Persist ==
    /\ pc = "persist"
    /\ IF progress_modified
         THEN progress_file' = progress /\ file_state' = "complete" /\ wrote' = TRUE
         ELSE UNCHANGED << progress_file, file_state, wrote >>
    /\ persist_done' = TRUE
    /\ pc' = "after"
    /\ UNCHANGED << args_force, progress, disk, idx, file_url, interrupted,
                    progress_modified, mod_failures, retry, input_response, exc,
                    exit_status, run, pass, outcome, res_req, xfer_req,
                    pass_start, overridden, prev_clean, tampered >>

\* lines 382-383: the process is terminated during the write; open('w') has
\* truncated progress.json, and none or only a part of the new text is in it
KillDuringWrite(left) ==
    /\ pc = "persist"
    /\ progress_modified
    /\ progress_file' = <<>>
    /\ file_state' = left
    /\ exc' = "SIGKILL"
    /\ exit_status' = 1
    /\ pc' = "exited"
    /\ prev_clean' = FALSE
    /\ tampered' = {}
    /\ UNCHANGED << args_force, progress, disk, idx, file_url, interrupted,
                    progress_modified, mod_failures, retry, input_response, run,
                    pass, outcome, res_req, xfer_req, pass_start, wrote,
                    persist_done, overridden >>

\* The process ends with `status`
ExitWith(status) ==
    /\ pc' = "exited"
    /\ exit_status' = status
    /\ prev_clean' = /\ status = 0
                      /\ ~args_force
                      /\ \A i \in Mods :
                            outcome[i] \in {"skipped", "skipped_dl", "acquired"}
    /\ tampered' = {}
    /\ UNCHANGED << args_force, progress, progress_file, file_state, disk, idx, file_url,
                    interrupted, progress_modified, mod_failures, retry,
                    input_response, exc, run, pass, outcome, res_req, xfer_req,
                    pass_start, wrote, persist_done, overridden >>

\* lines 389-393: sys.exit(error_msg)
SysExits(intr, answer) == intr \/ answer = "n"

SysExit ==
    /\ pc = "after"
    /\ SysExits(interrupted, input_response)
    /\ ExitWith(1)

\* the exception re-raised at line 361 leaves main() after the finally block
Traceback ==
    /\ pc = "after"
    /\ ~SysExits(interrupted, input_response)
    /\ exc # "none"
    /\ ExitWith(1)

\* lines 264-265: `while retry` starts another pass
RetryPass ==
    /\ pc = "after"
    /\ ~SysExits(interrupted, input_response)
    /\ exc = "none"
    /\ retry
    /\ retry' = FALSE
    /\ pass' = pass + 1
    /\ idx' = 1
    /\ file_url' = <<>>
    /\ pc' = "entry"
    /\ outcome' = Pending
    /\ res_req' = {}
    /\ xfer_req' = {}
    /\ pass_start' = progress
    /\ wrote' = FALSE
    /\ persist_done' = FALSE
    /\ overridden' = FALSE
    /\ prev_clean' = FALSE
    /\ tampered' = {}
    /\ UNCHANGED << args_force, progress, progress_file, file_state, disk, interrupted,
                    progress_modified, mod_failures, input_response, exc,
                    exit_status, run >>

\* lines 395-411: the README is written, main() returns
Finish ==
    /\ pc = "after"
    /\ ~SysExits(interrupted, input_response)
    /\ exc = "none"
    /\ ~retry
    /\ ExitWith(0)

\* ------------------------------------------------------------------ between runs
\* The process is gone: nothing of main()'s variables is left, only
\* progress.json and the downloaded files
ProcessGone ==
    /\ pc = "exited"
    /\ run < MaxRuns
    /\ pc' = "idle"
    /\ args_force' = FALSE
    /\ progress' = <<>>
    /\ pass_start' = <<>>
    /\ interrupted' = FALSE
    /\ progress_modified' = FALSE
    /\ mod_failures' = EmptyList
    /\ retry' = FALSE
    /\ input_response' = ""
    /\ exc' = "none"
    /\ exit_status' = 0
    /\ pass' = 1
    /\ idx' = 1
    /\ file_url' = <<>>
    /\ outcome' = Pending
    /\ res_req' = {}
    /\ xfer_req' = {}
    /\ wrote' = FALSE
    /\ persist_done' = FALSE
    /\ overridden' = FALSE
    /\ UNCHANGED << progress_file, file_state, disk, run, prev_clean, tampered >>

\* A downloaded file is deleted between two invocations
DeleteFile(f) ==
    /\ pc = "idle"
    /\ f \notin tampered
    /\ disk[f] # NoFile
    /\ disk' = [disk EXCEPT ![f] = NoFile]
    /\ tampered' = tampered \cup {f}
    /\ UNCHANGED << pc, args_force, progress, progress_file, file_state, idx, file_url,
                    interrupted, progress_modified, mod_failures, retry,
                    input_response, exc, exit_status, run, pass, outcome,
                    res_req, xfer_req, pass_start, wrote, persist_done,
                    overridden, prev_clean >>

\* A downloaded file is altered between two invocations: its content
\* differs from the one the previous invocation left
AlterFile(f, d) ==
    /\ pc = "idle"
    /\ f \notin tampered
    /\ disk[f] # NoFile
    /\ disk[f] # d
    /\ disk' = [disk EXCEPT ![f] = d]
    /\ tampered' = tampered \cup {f}
    /\ UNCHANGED << pc, args_force, progress, progress_file, file_state, idx, file_url,
                    interrupted, progress_modified, mod_failures, retry,
                    input_response, exc, exit_status, run, pass, outcome,
                    res_req, xfer_req, pass_start, wrote, persist_done,
                    overridden, prev_clean >>

\* LoadFails with a text that does not parse taken as no progress
LoadFails_Never(state) == FALSE

\* lines 251-254: json.loads raises on a non-empty text that does not parse
LoadFails(state) == state = "truncated"

\* lines 249-254: the script is invoked again and the load of progress.json
\* raises; main() is left before the mod loop
LoadFailure(force) ==
    /\ pc = "idle"
    /\ LoadFails(file_state)
    /\ run' = run + 1
    /\ pass' = 1
    /\ args_force' = force
    /\ progress' = <<>>
    /\ pass_start' = <<>>
    /\ interrupted' = FALSE
    /\ progress_modified' = FALSE
    /\ mod_failures' = EmptyList
    /\ retry' = FALSE
    /\ input_response' = ""
    /\ exc' = "JSONDecodeError"
    /\ exit_status' = 1
    /\ idx' = 1
    /\ file_url' = <<>>
    /\ pc' = "exited"
    /\ outcome' = Pending
    /\ res_req' = {}
    /\ xfer_req' = {}
    /\ wrote' = FALSE
    /\ persist_done' = FALSE
    /\ overridden' = FALSE
    /\ prev_clean' = FALSE
    /\ tampered' = {}
    /\ UNCHANGED << progress_file, file_state, disk >>

\* lines 249-263: the script is invoked again on the same directory, with or
\* without --force; the ledger is loaded from progress.json
NewRun(force) ==
    /\ pc = "idle"
    /\ ~LoadFails(file_state)
    /\ run' = run + 1
    /\ pass' = 1
    /\ args_force' = force
    /\ progress' = progress_file
    /\ pass_start' = progress_file
    /\ interrupted' = FALSE
    /\ progress_modified' = FALSE
    /\ mod_failures' = EmptyList
    /\ retry' = FALSE
    /\ input_response' = ""
    /\ exc' = "none"
    /\ exit_status' = 0
    /\ idx' = 1
    /\ file_url' = <<>>
    /\ pc' = "entry"
    /\ outcome' = Pending
    /\ res_req' = {}
    /\ xfer_req' = {}
    /\ wrote' = FALSE
    /\ persist_done' = FALSE
    /\ overridden' = FALSE
    /\ UNCHANGED << progress_file, file_state, disk, prev_clean, tampered >>

\* ------------------------------------------------------------------ specification
Next ==
    \/ BeginEntry
    \/ ResolveInterrupt
    \/ ResolveFail
    \/ \E text \in {<<>>, DownloadUrl(idx)} : ResolveText(text)
    \/ TransferSatisfied
    \/ TransferInterrupt
    \/ TransferFail
    \/ \E hash \in Digests, etag \in ETagValues : TransferDone(hash, etag)
    \/ \E hash \in Digests : TransferNoETag(hash)
    \/ EndLoop
    \/ FinallyNoPrompt
    \/ \E answer \in {"y", "n"} : Prompt(answer)
    \/ Persist
    \/ SysExit
    \/ Traceback
    \/ RetryPass
    \/ Finish
    \/ ProcessGone
    \/ \E f \in Filenames : DeleteFile(f)
    \/ \E f \in Filenames, d \in Digests : AlterFile(f, d)
    \/ \E force \in BOOLEAN : NewRun(force)
    \/ \E force \in BOOLEAN : LoadFailure(force)
    \/ \E left \in {"empty", "truncated"} : KillDuringWrite(left)

Spec == Init /\ [][Next]_vars

TypeOK ==
    /\ pc \in {"entry", "resolve", "transfer", "break", "finally", "persist",
              "after", "exited", "idle"}
    /\ file_state \in {"empty", "complete", "truncated"}
    /\ DOMAIN progress \subseteq Mods
    /\ DOMAIN progress_file \subseteq Mods
    /\ run \in 1..MaxRuns
    /\ pass \in 1..MaxPasses

\* ------------------------------------------------------------------ history helpers
\* Entries whose resolution or transfer failed in the current pass
Failed == {i \in Mods : outcome[i] \in {"res_failed", "xfer_failed"}}

\* Entries the current pass has dealt with
Processed == {i \in Mods : outcome[i] # "pending"}

\* The for loop of the current pass is over
PassEnded == pc \in {"finally", "persist", "after", "exited"}

\* ------------------------------------------------------------------ claims

\* C1: in a pass that is not cancelled, a resolution or transfer failure of
\* one entry never prevents a later entry from being attempted: when the
\* pass ends, every manifest entry has been processed.
C1_EveryEntryAttempted ==
    (PassEnded /\ ~interrupted /\ exc \notin {"KeyError", "JSONDecodeError"}) =>
        Processed = Mods

\* C2: at the end of a pass that was not cancelled, mod_failures is an
\* ordered list holding exactly the entries whose resolution or transfer
\* failed in that pass.
C2_FailuresListed ==
    (pc = "finally" /\ ~interrupted /\ exc = "none") =>
        /\ mod_failures.kind = "list"
        /\ {mod_failures.items[k] : k \in 1..Len(mod_failures.items)} = Failed
        /\ \A j, k \in 1..Len(mod_failures.items) :
               j < k => mod_failures.items[j] < mod_failures.items[k]

\* C3: after a cancellation during entry k, no later entry is attempted and
\* the ledger on disk after the persistence step is exactly the in-memory
\* ledger, with every change made earlier in the pass.
C3_CancelPersistsState ==
    (pc \in {"after", "exited"} /\ interrupted /\ exc # "SIGKILL") =>
        /\ \A i \in Mods : i > idx => outcome[i] = "pending"
        /\ progress_file = progress

\* C4: a run without --force that follows a clean run without --force, with
\* nothing changed in between, issues no resolution and no transfer request.
C4_Idempotent ==
    (pc # "exited" /\ run > 1 /\ pass = 1 /\ prev_clean /\ tampered = {}
       /\ ~args_force) =>
        res_req = {} /\ xfer_req = {}

\* C5: a record that is downloaded and whose file was deleted or altered
\* between runs gets a transfer request in the next run without --force, and
\* when the transfer succeeds the record is downloaded with the md5 of the
\* file now on disk.  (An altered file that validates against the record
\* is no case of the claim: it is skipped.)
C5_DigestRepairs ==
    (pc # "exited" /\ run > 1 /\ pass = 1 /\ ~args_force) =>
        \A i \in Processed :
            (i \in DOMAIN pass_start /\ pass_start[i].downloaded
               /\ pass_start[i].name \in tampered) =>
                /\ \/ i \in xfer_req
                   \/ /\ outcome[i] \in {"skipped", "skipped_dl"}
                      /\ validate_file(disk, progress[i].name, progress[i].md5)
                /\ outcome[i] = "acquired" =>
                      /\ progress[i].downloaded
                      /\ validate_file(disk, progress[i].name, progress[i].md5)

\* C6 as stated: with --force every manifest entry gets a transfer request
\* in a pass that runs to its end.
C6_EveryEntryTransferred ==
    (args_force /\ pc = "finally" /\ ~interrupted /\ exc = "none") =>
        Mods \subseteq xfer_req

\* C6 as amended: with --force no entry is skipped; every entry the pass
\* processes gets a transfer request unless its resolution request fails, is
\* cancelled or returns an empty text.
C6_ForceNeverSkips ==
    args_force =>
        \A i \in Processed :
            \/ i \in xfer_req
            \/ outcome[i] \in {"res_failed", "res_cancelled", "empty_url"}

C6_Witness ==
    /\ args_force
    /\ \E i \in Mods :
          /\ i \in DOMAIN pass_start
          /\ pass_start[i].downloaded
          /\ pass_start[i].md5 = disk[pass_start[i].name]
          /\ outcome[i] = "acquired"
          /\ i \in xfer_req

\* C7: if no record is created and no field of a record changes during a
\* pass, progress.json is not written at the end of that pass.
C7_PersistenceGate ==
    (pc = "after" /\ progress = pass_start) => ~wrote

\* C8: every mutation of the ledger marks it dirty, so that after the
\* persistence step of every pass progress.json equals the in-memory ledger.
C8_FileEqualsLedger ==
    pc = "after" => progress_file = progress

\* C9: answering 'y' starts another pass over the whole manifest, any number
\* of times, and every retry pass ends clean, cancelled or at the prompt.
C9_RetryRepeats ==
    /\ (pc = "exited" /\ exc \notin {"KeyError", "SIGKILL"}) => input_response # "y"
    /\ (pc = "persist" /\ pass > 1 /\ exc # "KeyError") =>
           \/ interrupted
           \/ input_response \in {"y", "n"}
           \/ Failed = {} /\ Processed = Mods

\* C10: the process exits with status zero only after a pass that completed
\* with no failure and no cancellation; after the answer 'n' and after a
\* cancellation it exits non-zero, and only after the persistence step of
\* that pass has run.
C10_ExitStatus ==
    (pc = "exited" /\ exc # "SIGKILL") =>
        /\ exit_status = 0 =>
              /\ ~interrupted
              /\ Failed = {}
              /\ Processed = Mods
              /\ \A i \in Mods : outcome[i] # "xfer_crashed"
        /\ (interrupted \/ input_response = "n") =>
              /\ exit_status # 0
              /\ persist_done

C10_Witness ==
    /\ pc = "exited"
    /\ exit_status = 0
    /\ pass > 1
    /\ \E i \in Mods : outcome[i] = "acquired"

\* C11: a termination of the process during the write of progress.json
\* leaves either the complete previous ledger or the complete new one.
C11_AtomicPersist ==
    [][(exc' = "SIGKILL" /\ exc # "SIGKILL") =>
          \/ file_state' = file_state /\ progress_file' = progress_file
          \/ file_state' = "complete" /\ progress_file' = progress]_vars

\* C12: an empty progress.json starts the run with an empty ledger; a
\* non-empty one that does not parse fails the run at load time, before any
\* entry is processed and any request is issued, and is left as it is.
C12_LedgerLoad ==
    /\ file_state = "truncated" => pc \in {"exited", "idle"}
    /\ (pc = "exited" /\ exc = "JSONDecodeError") =>
          /\ file_state = "truncated"
          /\ exit_status # 0
          /\ Processed = {}
          /\ res_req = {}
          /\ xfer_req = {}
          /\ ~wrote
    /\ (file_state = "empty" /\ pass = 1 /\ pc = "entry" /\ idx = 1) =>
          progress = <<>>

C12_Witness ==
    /\ pc = "exited"
    /\ exc = "JSONDecodeError"
    /\ run > 1

\* C13: from an empty ledger and with no external change to the files, a
\* record with downloaded=true has a name and the file of that name has the
\* digest md5, after every processed entry.
C13_RecordInvariant ==
    (run = 1 /\ pc = "entry") =>
        \A i \in DOMAIN progress :
            progress[i].downloaded =>
                /\ progress[i].name # ""
                /\ validate_file(disk, progress[i].name, progress[i].md5)

\* The url of entry i's record when the pass started
UrlAtStart(i) == IF i \in DOMAIN pass_start THEN pass_start[i].url ELSE <<>>

\* C14: a resolution request is issued exactly for the entries that reach
\* the download path with an empty url; it precedes the transfer; the
\* resolved url is in the record and the ledger is dirty when the transfer
\* starts, and it is in progress.json after the persistence step when the
\* transfer failed or was cancelled.
C14_ResolveThenStore ==
    /\ \A i \in res_req : UrlAtStart(i) = <<>>
    /\ \A i \in Processed :
          (outcome[i] \notin {"skipped", "already"} /\ UrlAtStart(i) = <<>>) =>
              i \in res_req
    /\ \A i \in xfer_req : progress[i].url # <<>>
    /\ pc = "transfer" =>
          /\ file_url # <<>>
          /\ progress[idx].url = file_url
          /\ idx \in res_req => progress_modified
    /\ pc = "after" =>
          \A i \in res_req :
              outcome[i] \in {"xfer_failed", "xfer_cancelled", "xfer_crashed"} =>
                  /\ file_state = "complete"
                  /\ i \in DOMAIN progress_file
                  /\ progress_file[i].url # <<>>

C14_Witness ==
    /\ pc = "after"
    /\ \E i \in res_req :
          /\ outcome[i] \in {"xfer_failed", "xfer_cancelled"}
          /\ progress_file[i].url = DownloadUrl(i)

\* C15: once a cancellation has been observed the operator is not prompted
\* and no further pass is started: only the persistence step and the exit,
\* with a non-zero status, remain.
C15_CancelSupersedesRetry ==
    /\ interrupted => pc \in {"break", "finally", "persist", "after", "exited"}
    /\ (interrupted /\ pc \in {"persist", "after", "exited"}) =>
          /\ input_response = ""
          /\ ~retry
          /\ pc = "exited" => exit_status # 0

C15_Witness ==
    /\ interrupted
    /\ pc = "exited"
    /\ exc = "none"
    /\ Failed # {}

\* C16: the operator is prompted exactly at the end of a pass that iterated
\* over the whole manifest without cancellation and in which an entry failed.
C16_PromptOnlyAfterFullPass ==
    (pc = "persist" /\ exc # "KeyError") =>
        (input_response \in {"y", "n"}
            <=> (overridden /\ ~interrupted /\ Failed # {}))

\* C17 as stated: override_files runs only in a pass in which no entry
\* failed and which was not cancelled.
C17_OnlyAfterCleanPass ==
    overridden => (Failed = {} /\ ~interrupted)

\* C17 as amended: override_files runs only in a pass whose loop went over
\* the whole manifest without cancellation and without an exception, whether
\* or not entries failed.
C17_OnlyAfterFullLoop ==
    overridden =>
        /\ ~interrupted
        /\ Processed = Mods
        /\ exc \notin {"AttributeError", "KeyError"}

C17_Witness ==
    /\ overridden
    /\ Failed # {}
    /\ \E i \in Mods : outcome[i] = "acquired"

\* C18: a pass that ends with no recorded failure and no cancellation has
\* brought every entry to skipped or acquired, with downloaded=true, a name
\* and a url in its record.
C18_CleanPassAcquiresAll ==
    (pc = "finally" /\ ~interrupted /\ exc = "none" /\ ~Truthy(mod_failures)) =>
        \A i \in Mods :
            /\ outcome[i] \in {"skipped", "skipped_dl", "acquired"}
            /\ i \in DOMAIN progress
            /\ progress[i].downloaded
            /\ progress[i].name # ""
            /\ progress[i].url # <<>>

\* C19: an entry is skipped without a network request only when its file was
\* validated against a non-empty md5 in that pass; the unvalidated 'Already
\* downloaded' branch of the loop is never taken.
C19_SkipOnlyValidated ==
    pc # "exited" =>
        \A i \in Processed :
            /\ outcome[i] # "already"
            /\ i \notin (res_req \cup xfer_req) =>
                  outcome[i] \in {"skipped", "skipped_dl"}
            /\ outcome[i] \in {"skipped", "skipped_dl"} =>
                  /\ i \notin (res_req \cup xfer_req)
                  /\ progress[i].md5 # ""
                  /\ validate_file(disk, progress[i].name, progress[i].md5)

C19_Witness ==
    /\ pc # "exited"
    /\ \E i \in Mods : outcome[i] = "skipped_dl"
    /\ \E i \in Mods : outcome[i] = "skipped"

====
